---- MODULE Spec2Model ----
(***************************************************************************)
(* TickScheduler of CounterStrikeSharp (src/core/tick_scheduler.cpp).      *)
(*                                                                         *)
(* scheduledTasks is a concurrent queue of (tick, callback) pairs.         *)
(* schedule() enqueues one pair.  getCallbacks(currentTick) -- the spec's  *)
(* collectDue -- dequeues until try_dequeue fails, puts the callback of    *)
(* every pair with tick <= currentTick in callbacksToRun and every other   *)
(* pair in allTasks, enqueues the pairs of allTasks again and returns      *)
(* callbacksToRun.                                                         *)
(*                                                                         *)
(* Producers run schedule() on their own threads, so a schedule() step can *)
(* fall between any two steps of a running getCallbacks().  Each queue     *)
(* operation (enqueue, try_dequeue) is one atomic step.                    *)
(*                                                                         *)
(* A pair is <<tick, cb>>.  Callbacks are opaque to the scheduler; the     *)
(* k-th schedule() call is given the callback k, so that each scheduled    *)
(* task can be followed through the store, the locals and the results.     *)
(***************************************************************************)
EXTENDS Integers, Sequences, FiniteSets

\* ---------------------------------------------------------------- bounds
\* Total number of schedule() calls of a run.
MaxTasks == 3
\* Ticks range over 1..MaxTick, for tasks and for getCallbacks arguments.
MaxTick == 2

Ticks == 1 .. MaxTick
TaskIds == 1 .. MaxTasks

VARIABLES
    scheduledTasks,  \* the queue: a sequence of <<tick, cb>> pairs
    pc,              \* the consumer's position in getCallbacks
    currentTick,     \* argument of the running (or last) getCallbacks call
    callbacksToRun,  \* local: callbacks of the due tasks dequeued so far
    allTasks,        \* local: the not-due pairs dequeued so far
    idx,             \* position of the re-insert loop in allTasks
    numProducers,    \* N: number of producer threads of this run
    perProducer,     \* M: number of schedule() calls each producer makes
    produced,        \* produced[p]: schedule() calls producer p has completed
    ticks,           \* ticks[k]: tick of the k-th completed schedule() call
    lastResult,      \* the vector the last finished getCallbacks returned
    returnedCount,   \* returnedCount[k]: times callback k was in a returned vector
    called,          \* a getCallbacks call has begun
    monotone,        \* every call so far had currentTick >= that of the call before
    storeAtBegin,    \* the queue when the running (or last) call began
    schedAtBegin,    \* number of completed schedule() calls at that moment
    schedAtDrainEnd, \* the same, when the drain loop of that call ended
    raced,           \* a schedule() completed since that moment
    racedReinsert,   \* a schedule() completed while a re-insert loop ran
    dequeues,        \* successful try_dequeue calls of the running (or last) call
    pc2,             \* a second thread calling getCallbacks: its position,
    currentTick2,    \*   its argument,
    callbacksToRun2, \*   its callbacksToRun,
    allTasks2,       \*   its allTasks,
    idx2,            \*   and the position of its re-insert loop
    natHeap,         \* natives_players.cpp: state of each iterator address
    natCall          \* natives_players.cpp: the last native call and its outcome

progVars == <<scheduledTasks, pc, currentTick, callbacksToRun, allTasks, idx>>
envVars == <<numProducers, perProducer, produced, ticks>>
histVars == <<lastResult, returnedCount, called, monotone, storeAtBegin,
              schedAtBegin, schedAtDrainEnd, raced, racedReinsert, dequeues>>
secondVars == <<pc2, currentTick2, callbacksToRun2, allTasks2, idx2>>
natVars == <<natHeap, natCall>>
otherVars == <<secondVars, natVars>>
vars == <<progVars, envVars, histVars, secondVars, natVars>>

\* ------------------------------------------------------ sequence helpers
RemoveAt(q, i) == SubSeq(q, 1, i - 1) \o SubSeq(q, i + 1, Len(q))

Range(q) == {q[i] : i \in 1 .. Len(q)}

\* Number of positions of q holding x.
Count(q, x) == Cardinality({i \in 1 .. Len(q) : q[i] = x})

\* ------------------------------------------------------------ the queue
\* scheduledTasks.enqueue(pair)
EnqueueLossy(q, pair) == IF q = <<>> THEN <<pair>> ELSE q
Enqueue(q, pair) == Append(q, pair)

\* The positions try_dequeue may take a pair from.  The store promises no
\* order among tasks, so every position is possible.
DequeueIndexes(q) == 1 .. Len(q)

\* task.first <= currentTick
IsDueLate(pair, T) == pair[1] < T
IsDue(pair, T) == pair[1] <= T

\* The if branch of the drain loop: callbacksToRun.push_back(task.second)
PushAlways(cbs, pair, T) == Append(cbs, pair[2])
PushDueFront(cbs, pair, T) ==
    IF pair[1] <= T THEN <<pair[2]>> \o cbs ELSE cbs
PushDue(cbs, pair, T) == IF IsDue(pair, T) THEN Append(cbs, pair[2]) ELSE cbs

\* The else branch of the drain loop: allTasks.push_back(task)
KeepAlways(rest, pair, T) == Append(rest, pair)
KeepNotDue(rest, pair, T) == IF IsDue(pair, T) THEN rest ELSE Append(rest, pair)

\* The condition of the re-insert loop over allTasks, i the next position.
MoreToReinsertShort(i, rest) == i < Len(rest)
MoreToReinsert(i, rest) == i <= Len(rest)

\* std::vector<std::function<void()>> callbacksToRun: a local of the call,
\* constructed empty whatever the call before (result `prev`) left.
StaleCallbacks(prev) == prev
FreshCallbacks(prev) == <<>>

\* nullptr, and the addresses operator new can return.
Null == 0
MaxHandles == 2
Handles == 1 .. MaxHandles

\* ----------------------------------------------------------------- Init
\* No second consumer thread has called getCallbacks, no native was called.
InitOther ==
    /\ pc2 = "idle"
    /\ currentTick2 = 1
    /\ callbacksToRun2 = <<>>
    /\ allTasks2 = <<>>
    /\ idx2 = 1
    /\ natHeap = [h \in Handles |-> "unalloc"]
    /\ natCall = [fn |-> "none", arg |-> Null, ret |-> 0, deref |-> FALSE,
                  crash |-> FALSE, stale |-> FALSE]

\* A scheduler on which nothing was called yet, with n producers of m calls
\* each and room for the history of `ids` callbacks.
InitScheduler(n, m, ids) ==
    /\ scheduledTasks = <<>>
    /\ pc = "idle"
    /\ currentTick = 1
    /\ callbacksToRun = <<>>
    /\ allTasks = <<>>
    /\ idx = 1
    /\ numProducers = n
    /\ perProducer = m
    /\ produced = [p \in 1 .. n |-> 0]
    /\ ticks = <<>>
    /\ lastResult = <<>>
    /\ returnedCount = [k \in ids |-> 0]
    /\ called = FALSE
    /\ monotone = TRUE
    /\ storeAtBegin = <<>>
    /\ schedAtBegin = 0
    /\ schedAtDrainEnd = 0
    /\ raced = FALSE
    /\ racedReinsert = FALSE
    /\ dequeues = 0

Init ==
    /\ InitOther
    /\ \E n \in 1 .. MaxTasks : \E m \in 1 .. MaxTasks :
          /\ n * m <= MaxTasks
          /\ InitScheduler(n, m, TaskIds)

\* -------------------------------------------------------------- schedule
\* A schedule() that takes a lock the running getCallbacks holds.
ScheduleLocked(p, tick) ==
    /\ pc = "idle"
    /\ produced[p] < perProducer
    /\ scheduledTasks' = Enqueue(scheduledTasks, <<tick, Len(ticks) + 1>>)
    /\ produced' = [produced EXCEPT ![p] = @ + 1]
    /\ ticks' = Append(ticks, tick)
    /\ raced' = TRUE
    /\ racedReinsert' = racedReinsert
    /\ UNCHANGED <<pc, currentTick, callbacksToRun, allTasks, idx,
                   numProducers, perProducer, lastResult, returnedCount,
                   called, monotone, storeAtBegin, schedAtBegin,
                   schedAtDrainEnd, dequeues, otherVars>>

\* TickScheduler::schedule(tick, callback), called by producer p.
Schedule(p, tick) ==
    /\ produced[p] < perProducer
    /\ scheduledTasks' = Enqueue(scheduledTasks, <<tick, Len(ticks) + 1>>)
    /\ produced' = [produced EXCEPT ![p] = @ + 1]
    /\ ticks' = Append(ticks, tick)
    /\ raced' = TRUE
    /\ racedReinsert' = (racedReinsert \/ pc = "reinsert")
    /\ UNCHANGED <<pc, currentTick, callbacksToRun, allTasks, idx,
                   numProducers, perProducer, lastResult, returnedCount,
                   called, monotone, storeAtBegin, schedAtBegin,
                   schedAtDrainEnd, dequeues, otherVars>>

\* ---------------------------------------------------------- getCallbacks
\* Entry: the argument is bound and the locals are constructed empty.
Begin(T) ==
    /\ pc = "idle"
    /\ pc' = "drain"
    /\ currentTick' = T
    /\ callbacksToRun' = FreshCallbacks(lastResult)
    /\ allTasks' = <<>>
    /\ idx' = 1
    /\ called' = TRUE
    /\ monotone' = (monotone /\ (called => T >= currentTick))
    /\ storeAtBegin' = scheduledTasks
    /\ schedAtBegin' = Len(ticks)
    /\ schedAtDrainEnd' = Len(ticks)
    /\ raced' = FALSE
    /\ dequeues' = 0
    /\ UNCHANGED <<scheduledTasks, envVars, lastResult, returnedCount,
                   racedReinsert, otherVars>>

\* One iteration of the drain loop: try_dequeue succeeds with the pair at
\* position i and the pair goes to callbacksToRun or to allTasks.
DrainStep(i) ==
    /\ pc = "drain"
    /\ i \in DequeueIndexes(scheduledTasks)
    /\ scheduledTasks' = RemoveAt(scheduledTasks, i)
    /\ callbacksToRun' = PushDue(callbacksToRun, scheduledTasks[i], currentTick)
    /\ allTasks' = KeepNotDue(allTasks, scheduledTasks[i], currentTick)
    /\ dequeues' = dequeues + 1
    /\ UNCHANGED <<pc, currentTick, idx, envVars, lastResult, returnedCount,
                   called, monotone, storeAtBegin, schedAtBegin,
                   schedAtDrainEnd, raced, racedReinsert, otherVars>>

\* try_dequeue finds the queue empty: the drain loop ends.
DrainEndEarly ==
    /\ pc = "drain"
    /\ pc' = "reinsert"
    /\ schedAtDrainEnd' = Len(ticks)
    /\ UNCHANGED <<scheduledTasks, currentTick, callbacksToRun, allTasks, idx,
                   envVars, lastResult, returnedCount, called, monotone,
                   storeAtBegin, schedAtBegin, raced, racedReinsert, dequeues,
                   otherVars>>
DrainEnd ==
    /\ pc = "drain"
    /\ scheduledTasks = <<>>
    /\ pc' = "reinsert"
    /\ schedAtDrainEnd' = Len(ticks)
    /\ UNCHANGED <<scheduledTasks, currentTick, callbacksToRun, allTasks, idx,
                   envVars, lastResult, returnedCount, called, monotone,
                   storeAtBegin, schedAtBegin, raced, racedReinsert, dequeues,
                   otherVars>>

\* One iteration of the re-insert loop.
ReinsertStep ==
    /\ pc = "reinsert"
    /\ MoreToReinsert(idx, allTasks)
    /\ scheduledTasks' = Enqueue(scheduledTasks, allTasks[idx])
    /\ idx' = idx + 1
    /\ UNCHANGED <<pc, currentTick, callbacksToRun, allTasks, envVars, histVars,
                   otherVars>>

\* The re-insert loop is over: return callbacksToRun; the locals die.
Return ==
    /\ pc = "reinsert"
    /\ ~MoreToReinsert(idx, allTasks)
    /\ pc' = "idle"
    /\ lastResult' = callbacksToRun
    /\ returnedCount' =
          [k \in DOMAIN returnedCount |->
              returnedCount[k] + Count(callbacksToRun, k)]
    /\ callbacksToRun' = <<>>
    /\ allTasks' = <<>>
    /\ idx' = 1
    /\ UNCHANGED <<scheduledTasks, currentTick, envVars, called, monotone,
                   storeAtBegin, schedAtBegin, schedAtDrainEnd, raced,
                   racedReinsert, dequeues, otherVars>>

Producer == \E p \in 1 .. numProducers : \E tick \in Ticks : Schedule(p, tick)

Consumer ==
    \/ \E T \in Ticks : Begin(T)
    \/ \E i \in 1 .. MaxTasks : DrainStep(i)
    \/ DrainEnd
    \/ ReinsertStep
    \/ Return

Next == Producer \/ Consumer

Spec == Init /\ [][Next]_vars

\* ------------------------------------------------- terms of the claims
\* Are a and b the same multiset?
SameBag(a, b) ==
    /\ Len(a) = Len(b)
    /\ \A x \in Range(a) \cup Range(b) : Count(a, x) = Count(b, x)

\* The callbacks of a sequence of pairs, in order.
Callbacks(q) == [i \in 1 .. Len(q) |-> q[i][2]]

DueAt(q, T) == SelectSeq(q, LAMBDA pair : pair[1] <= T)
NotDueAt(q, T) == SelectSeq(q, LAMBDA pair : pair[1] > T)

\* The pairs of allTasks the re-insert loop has not enqueued yet: the
\* not-due tasks the running call still holds outside the store.
NotDueBuffer == SubSeq(allTasks, idx, Len(allTasks))

\* A getCallbacks call has returned and none is running.
Finished == pc = "idle" /\ called

\* The tasks scheduled so far.
Scheduled == 1 .. Len(ticks)

\* Was callback k in the vector of a call that returned before the last one?
ReturnedEarlier(k) == returnedCount[k] - Count(lastResult, k) > 0

\* In how many places task k is: store, not-due buffer, running result,
\* returned results.
Places(k) ==
    Count(Callbacks(scheduledTasks), k) + Count(Callbacks(NotDueBuffer), k)
    + Count(callbacksToRun, k) + returnedCount[k]

\* ----------------------------------------------------------------- C1
\* C1: no task is in the results of two getCallbacks calls, nor twice in
\* one; a task that has been returned is not in the store again.
C1_AtMostOnce ==
    \A k \in TaskIds :
        /\ returnedCount[k] <= 1
        /\ returnedCount[k] = 1 => Count(Callbacks(scheduledTasks), k) = 0

\* A task was returned by an earlier call, and a later call with a tick that
\* also covers it has returned another task.
C1_Witness ==
    /\ Finished
    /\ \E j \in Scheduled : \E k \in Scheduled :
          /\ ReturnedEarlier(j)
          /\ ticks[j] <= currentTick
          /\ Count(lastResult, k) = 1

\* ----------------------------------------------------------------- C2
\* C2: a getCallbacks(T) that no schedule raced with returns, as a multiset,
\* the callbacks of the stored tasks with tick <= T, and leaves in the store,
\* as a multiset, the stored pairs with tick > T, unchanged.
C2_Partition ==
    (Finished /\ ~raced) =>
        /\ SameBag(lastResult, Callbacks(DueAt(storeAtBegin, currentTick)))
        /\ SameBag(scheduledTasks, NotDueAt(storeAtBegin, currentTick))

\* The store held two due tasks sharing a tick and a not-due task.
C2_Witness ==
    /\ Finished /\ ~raced
    /\ Len(lastResult) >= 2
    /\ \E i \in 1 .. Len(storeAtBegin) : \E j \in 1 .. Len(storeAtBegin) :
          /\ i # j
          /\ storeAtBegin[i][1] = storeAtBegin[j][1]
          /\ storeAtBegin[i][1] <= currentTick
    /\ scheduledTasks # <<>>

\* ----------------------------------------------------------------- C3
\* C3: in every state, between any two steps of a running getCallbacks and
\* however the schedule calls fall, each scheduled task is in exactly one
\* of: the store, the not-due buffer of the running call, the result of the
\* running call, a returned result; and these hold nothing else.
C3_NoLossNoDup ==
    /\ \A k \in Scheduled : Places(k) = 1
    /\ \A k \in TaskIds \ Scheduled : Places(k) = 0
    /\ \A pair \in Range(scheduledTasks) \cup Range(NotDueBuffer) :
          /\ pair[2] \in Scheduled
          /\ pair[1] = ticks[pair[2]]
    /\ Range(callbacksToRun) \subseteq Scheduled

\* Mid re-insert, after a racing schedule: tasks in the store, in the
\* buffer and in the running result at once.
C3_Witness ==
    /\ pc = "reinsert"
    /\ raced
    /\ idx > 1
    /\ NotDueBuffer # <<>>
    /\ callbacksToRun # <<>>

\* ----------------------------------------------------------------- C4
\* C4: every callback in the result of getCallbacks(T), running or returned,
\* belongs to a task with tick <= T, also when schedule calls race with it.
C4_OnlyDue ==
    /\ \A k \in Range(callbacksToRun) : ticks[k] <= currentTick
    /\ Finished => \A k \in Range(lastResult) : ticks[k] <= currentTick

\* A call that schedule raced with returned a task and kept a not-due one.
C4_Witness ==
    /\ Finished
    /\ schedAtDrainEnd > schedAtBegin
    /\ lastResult # <<>>
    /\ \E pair \in Range(scheduledTasks) : pair[1] > currentTick

\* ----------------------------------------------------------------- C5
\* C5: a task whose schedule completed before getCallbacks(T) began, with
\* tick <= T, and that no earlier call returned, is in the result of this
\* very call.
C5_NextCall ==
    Finished =>
        \A k \in 1 .. schedAtBegin :
            (ticks[k] <= currentTick /\ ~ReturnedEarlier(k))
                => Count(lastResult, k) = 1

\* Task k was scheduled after an earlier call had already returned a task j
\* with a tick at or above k's, so k was due when scheduled; the next call
\* returned it.
C5_Witness ==
    /\ Finished /\ monotone
    /\ \E j \in Scheduled : \E k \in 1 .. schedAtBegin :
          /\ j < k
          /\ ReturnedEarlier(j)
          /\ ticks[k] <= ticks[j]
          /\ Count(lastResult, k) = 1

\* ----------------------------------------------------------------- C6
\* The tasks returned so far, and the tasks with tick <= T among the first n
\* scheduled.
Returned == {k \in TaskIds : returnedCount[k] >= 1}
DueAmong(n, T) == {k \in 1 .. n : ticks[k] <= T}

\* C6 as stated: after calls with non-decreasing ticks, the returned tasks
\* are exactly the tasks scheduled before the last call began whose tick is
\* <= the final tick, each once.
C6_AsStated ==
    (Finished /\ monotone) =>
        /\ Returned = DueAmong(schedAtBegin, currentTick)
        /\ \A k \in Returned : returnedCount[k] = 1

\* C6 amended: after calls with non-decreasing ticks, every task scheduled
\* before the last call began with tick <= the final tick has been returned,
\* each returned task was returned once, and every returned task has tick
\* <= the final tick and was scheduled before the drain loop of the last
\* call ended.
C6_MonotonicDrain ==
    (Finished /\ monotone) =>
        /\ DueAmong(schedAtBegin, currentTick) \subseteq Returned
        /\ Returned \subseteq DueAmong(schedAtDrainEnd, currentTick)
        /\ \A k \in Returned : returnedCount[k] = 1

\* Two calls with non-decreasing ticks; the last returned a task whose
\* schedule raced with its drain loop, an earlier one returned another.
C6_Witness ==
    /\ Finished /\ monotone
    /\ \E j \in Scheduled : ReturnedEarlier(j)
    /\ \E k \in Scheduled : k > schedAtBegin /\ Count(lastResult, k) = 1
    /\ \E pair \in Range(scheduledTasks) : pair[1] > currentTick

\* ----------------------------------------------------------------- C7
ProducersDone == \A p \in 1 .. numProducers : produced[p] = perProducer

\* C7: once the N producers have made their M schedule calls each and a
\* getCallbacks with a tick at or above every task's tick, begun after the
\* last schedule, has returned, N*M tasks have been returned, each once, and
\* the store is empty.
C7_Stress ==
    ( /\ Finished
      /\ ProducersDone
      /\ schedAtBegin = numProducers * perProducer
      /\ \A k \in Scheduled : ticks[k] <= currentTick )
    => /\ Cardinality(Returned) = numProducers * perProducer
       /\ \A k \in Scheduled : returnedCount[k] = 1
       /\ scheduledTasks = <<>>

\* Several producers, schedule calls racing with the re-insert loop of an
\* earlier call, ticks non-decreasing over several calls.
C7_Witness ==
    /\ Finished /\ ProducersDone /\ monotone
    /\ numProducers >= 2
    /\ schedAtBegin = numProducers * perProducer
    /\ \A k \in Scheduled : ticks[k] <= currentTick
    /\ racedReinsert
    /\ \E j \in Scheduled : ReturnedEarlier(j)
    /\ lastResult # <<>>

\* ----------------------------------------------------------------- C8
\* C8: a getCallbacks(T) on a store with no task of tick <= T (and no
\* schedule racing) returns the empty vector and leaves the same multiset
\* of pairs in the store.
C8_NothingDue ==
    ( /\ Finished /\ ~raced
      /\ \A pair \in Range(storeAtBegin) : pair[1] > currentTick )
    => /\ lastResult = <<>>
       /\ SameBag(scheduledTasks, storeAtBegin)

\* Such a call on a store of two or more tasks, which it left in another
\* order.
C8_Witness ==
    /\ Finished /\ ~raced
    /\ Len(storeAtBegin) >= 2
    /\ \A pair \in Range(storeAtBegin) : pair[1] > currentTick
    /\ scheduledTasks # storeAtBegin

\* ----------------------------------------------------------------- C9
\* C9: a getCallbacks call dequeues at most as many tasks as the store held
\* when the call began, whatever the producers do meanwhile.
C9_DrainBound == called => dequeues <= Len(storeAtBegin)

\* ---------------------------------------------------------------- C10
\* The consumer thread runs on: a getCallbacks call that can take a step
\* takes it, and the simulation loop calls getCallbacks again every tick.
FairSpec == Spec /\ WF_vars(Consumer)

\* From some point on, the consumer's tick is at or above the tick of task k.
TickStaysDue(k) == <>[](k \in Scheduled => currentTick >= ticks[k])

\* C10: if the consumer keeps calling getCallbacks and its tick eventually
\* stays at or above the tick of a scheduled task, some call returns that
\* task, also when its schedule raced with a drain or a re-insert loop.
C10_EventualDelivery ==
    \A k \in TaskIds :
        TickStaysDue(k) => [](k \in Scheduled => <>(returnedCount[k] >= 1))

\* Every scheduled task has been returned, one whose schedule raced with the
\* drain loop of the call that returned it, another scheduled while a
\* re-insert loop ran.
C10_Witness ==
    /\ Finished
    /\ racedReinsert
    /\ Len(ticks) >= 2
    /\ \A k \in Scheduled : returnedCount[k] = 1
    /\ \E k \in Scheduled : k > schedAtBegin /\ Count(lastResult, k) = 1

\* ---------------------------------------------------------------- C11
\* The scenario of the specification: four tasks, submitted in any order,
\* then three getCallbacks calls, one after the other.
ScenarioTicks == <<5, 10, 10, 15>>
ScenarioCalls == <<10, 15, 100>>
ScenarioIds == 1 .. Len(ScenarioTicks)

ScenarioInit ==
    InitOther /\ InitScheduler(1, Len(ScenarioTicks), ScenarioIds)

\* The number of getCallbacks calls of the scenario begun so far.
CallsMade ==
    IF ~called THEN 0
    ELSE CHOOSE n \in 1 .. Len(ScenarioCalls) : ScenarioCalls[n] = currentTick

ScenarioSchedule ==
    \E t \in Range(ScenarioTicks) :
        /\ ~called
        /\ Count(ticks, t) < Count(ScenarioTicks, t)
        /\ Schedule(1, t)

ScenarioCall ==
    /\ Len(ticks) = Len(ScenarioTicks)
    /\ CallsMade < Len(ScenarioCalls)
    /\ Begin(ScenarioCalls[CallsMade + 1])

ScenarioNext ==
    \/ ScenarioSchedule
    \/ ScenarioCall
    \/ \E i \in ScenarioIds : DrainStep(i)
    \/ DrainEnd
    \/ ReinsertStep
    \/ Return

ScenarioSpec == ScenarioInit /\ [][ScenarioNext]_vars

\* The ticks of the tasks whose callbacks are in cbs, in order.
TicksOf(cbs) == [i \in 1 .. Len(cbs) |-> ticks[cbs[i]]]

\* C11: with tasks at ticks 5, 10, 10, 15 submitted in any order,
\* getCallbacks(10) returns the three tasks at 5, 10, 10 and keeps the task at
\* 15; then getCallbacks(15) returns that task alone; then getCallbacks(100)
\* returns nothing.
C11_Scenario ==
    Finished =>
        /\ CallsMade = 1 =>
              /\ SameBag(TicksOf(lastResult), <<5, 10, 10>>)
              /\ Cardinality(Range(lastResult)) = 3
              /\ Len(scheduledTasks) = 1
              /\ scheduledTasks[1][1] = 15
              /\ scheduledTasks[1][2] \notin Range(lastResult)
        /\ CallsMade = 2 =>
              /\ Len(lastResult) = 1
              /\ ticks[lastResult[1]] = 15
              /\ scheduledTasks = <<>>
        /\ CallsMade = 3 =>
              /\ lastResult = <<>>
              /\ scheduledTasks = <<>>

\* The three calls have returned; the task at 15 was submitted first and
\* one of the tasks at 10 last.
C11_Witness ==
    /\ Finished
    /\ CallsMade = 3
    /\ ticks[1] = 15
    /\ ticks[4] = 10
    /\ \A k \in ScenarioIds : returnedCount[k] = 1

\* ---------------------------------------------------------------- C12
\* Ticks of either sign, for tasks and for getCallbacks arguments, on a
\* scheduler that is given at most MaxSignedTasks tasks.
MaxSignedTasks == 1
SignedTicks == (0 - MaxTick) .. MaxTick

SignedInit == InitOther /\ InitScheduler(1, MaxSignedTasks, TaskIds)

SignedNext ==
    \/ \E t \in SignedTicks : Schedule(1, t)
    \/ \E T \in SignedTicks : Begin(T)
    \/ \E i \in TaskIds : DrainStep(i)
    \/ DrainEnd
    \/ ReinsertStep
    \/ Return

SignedSpec == SignedInit /\ [][SignedNext]_vars

\* The running or last call began on an empty store and no schedule has
\* completed since.
OnEmptyStore == called /\ storeAtBegin = <<>> /\ ~raced

\* C12: getCallbacks(T) on an empty store, T zero, negative or positive,
\* runs to its return without an error (each loop finds its exit open),
\* returns the empty vector and leaves the store empty.
C12_EmptyStore ==
    OnEmptyStore =>
        /\ scheduledTasks = <<>>
        /\ dequeues = 0
        /\ callbacksToRun = <<>>
        /\ allTasks = <<>>
        /\ pc = "drain" => ENABLED DrainEnd
        /\ pc = "reinsert" => ENABLED Return
        /\ pc = "idle" => lastResult = <<>>

\* A call with a negative tick has returned from an empty store, after an
\* earlier call had returned a task.
C12_Witness ==
    /\ Finished
    /\ OnEmptyStore
    /\ currentTick < 0
    /\ \E k \in Scheduled : returnedCount[k] = 1

\* ---------------------------------------------------------------- C13
\* scheduledTasks.enqueue() allocates when the queue needs room and reports
\* an allocation that failed by returning false, the queue left as it was.
\* Both call sites are expression statements: the result is discarded.
EnqueueFailed(q, pair) == q

\* schedule() whose enqueue fails: the call returns normally all the same.
ScheduleDropped(p, tick) ==
    /\ produced[p] < perProducer
    /\ scheduledTasks' = EnqueueFailed(scheduledTasks, <<tick, Len(ticks) + 1>>)
    /\ produced' = [produced EXCEPT ![p] = @ + 1]
    /\ ticks' = Append(ticks, tick)
    /\ raced' = TRUE
    /\ racedReinsert' = (racedReinsert \/ pc = "reinsert")
    /\ UNCHANGED <<pc, currentTick, callbacksToRun, allTasks, idx,
                   numProducers, perProducer, lastResult, returnedCount,
                   called, monotone, storeAtBegin, schedAtBegin,
                   schedAtDrainEnd, dequeues, otherVars>>

\* An iteration of the re-insert loop whose enqueue fails: the loop goes on.
ReinsertDropped ==
    /\ pc = "reinsert"
    /\ MoreToReinsert(idx, allTasks)
    /\ scheduledTasks' = EnqueueFailed(scheduledTasks, allTasks[idx])
    /\ idx' = idx + 1
    /\ UNCHANGED <<pc, currentTick, callbacksToRun, allTasks, envVars, histVars,
                   otherVars>>

AllocNext ==
    \/ Producer
    \/ Consumer
    \/ \E p \in 1 .. numProducers : \E tick \in Ticks : ScheduleDropped(p, tick)
    \/ ReinsertDropped

AllocSpec == Init /\ [][AllocNext]_vars

\* C13: a schedule call that returned normally has put its task in the
\* store, and a task taken into the not-due buffer is put back, so every
\* task of a completed schedule call is in the store, held by the running
\* call or returned: no failed insertion drops one silently.
C13_NoSilentDrop == \A k \in Scheduled : Places(k) >= 1

\* ---------------------------------------------------------------- C14
\* C14: in every state, also between any two steps of a running
\* getCallbacks, every producer with a call left can take its schedule step
\* (one enqueue, after which the call is complete), and the consumer has a
\* step it can take whatever the producers are doing.
C14_NeverWait ==
    /\ \A p \in 1 .. numProducers :
          produced[p] < perProducer =>
              \A tick \in Ticks : ENABLED Schedule(p, tick)
    /\ ENABLED Consumer

\* Schedule calls have completed during the drain loop and during the
\* re-insert loop, which is running, and a producer has a call left.
C14_Witness ==
    /\ pc = "reinsert"
    /\ MoreToReinsert(idx, allTasks)
    /\ racedReinsert
    /\ schedAtDrainEnd > schedAtBegin
    /\ \E p \in 1 .. numProducers : produced[p] < perProducer

\* ---------------------------------------------------------------- C15
\* C15: a step in which a schedule call completes adds exactly the pair of
\* that call to the store and changes no pair already stored, no local of
\* a running getCallbacks and no returned result; and whenever no
\* getCallbacks is running, every scheduled task is either still in the
\* store or has been returned: nothing else takes a task out.
C15_InsertionOnly ==
    [][ /\ Len(ticks') = Len(ticks) + 1 =>
              /\ SameBag(scheduledTasks',
                         Append(scheduledTasks,
                                <<ticks'[Len(ticks')], Len(ticks')>>))
              /\ callbacksToRun' = callbacksToRun
              /\ allTasks' = allTasks
              /\ lastResult' = lastResult
              /\ returnedCount' = returnedCount
        /\ pc' = "idle" =>
              \A k \in 1 .. Len(ticks') :
                  Count(Callbacks(scheduledTasks'), k) + returnedCount'[k] = 1
      ]_vars

\* A schedule completed after a call had returned a task, onto a store
\* that held a task already.
C15_Witness ==
    /\ Finished
    /\ raced
    /\ lastResult # <<>>
    /\ Len(scheduledTasks) >= 2

\* ---------------------------------------------------------------- C18
\* The pairs of allTasks are not due, are in no result, and are in the store
\* only once the re-insert loop has passed them.
HeldOut ==
    /\ pc = "drain" => idx = 1
    /\ \A j \in 1 .. Len(allTasks) :
          /\ allTasks[j][1] > currentTick
          /\ Count(callbacksToRun, allTasks[j][2]) = 0
          /\ returnedCount[allTasks[j][2]] = 0
          /\ Count(scheduledTasks, allTasks[j]) =
                (IF pc = "reinsert" /\ j < idx THEN 1 ELSE 0)

\* C18: from its dequeue until the re-insert loop enqueues it, a not-due
\* task is neither in the store nor in any result; the re-insert loop starts
\* only when try_dequeue has found the store empty; and when getCallbacks
\* returns, every pair of allTasks is in the store exactly once.
C18_OutOfStore ==
    [][ /\ HeldOut'
        /\ (pc = "drain" /\ pc' = "reinsert") => scheduledTasks = <<>>
        /\ (pc = "reinsert" /\ pc' = "idle") =>
              \A j \in 1 .. Len(allTasks) :
                  Count(scheduledTasks', allTasks[j]) = 1
      ]_vars

\* Mid re-insert: one not-due task is back in the store, another is still
\* held, and a schedule has completed during the call.
C18_Witness ==
    /\ pc = "reinsert"
    /\ idx > 1
    /\ MoreToReinsert(idx, allTasks)
    /\ raced

\* ---------------------------------------------------------------- C20
\* The store as one first-in first-out queue: try_dequeue takes the pair at
\* the head.
FifoConsumer ==
    \/ \E T \in Ticks : Begin(T)
    \/ DrainStep(1)
    \/ DrainEnd
    \/ ReinsertStep
    \/ Return

FifoNext == Producer \/ FifoConsumer

FifoSpec == Init /\ [][FifoNext]_vars

\* C20: with a first-in first-out store and no schedule racing, the result
\* of getCallbacks(T) lists the callbacks of the due tasks in the order the
\* tasks were stored, and the store then holds the not-due pairs in the
\* order they had.
C20_FifoOrder ==
    (Finished /\ ~raced) =>
        /\ lastResult = Callbacks(DueAt(storeAtBegin, currentTick))
        /\ scheduledTasks = NotDueAt(storeAtBegin, currentTick)

\* The store held two not-due tasks, the later scheduled one first, and a
\* due task; the call returned the due one and kept the two in their order.
C20_Witness ==
    /\ Finished /\ ~raced
    /\ lastResult # <<>>
    /\ Len(scheduledTasks) >= 2
    /\ scheduledTasks[1][2] > scheduledTasks[2][2]
    /\ Len(storeAtBegin) = Len(scheduledTasks) + Len(lastResult)

\* ---------------------------------------------------------------- C17
\* getCallbacks called by a second thread while the first may be inside it:
\* the same code on the same queue, with locals of its own.
schedulerVars == <<progVars, envVars, histVars>>

Begin2(T) ==
    /\ pc2 = "idle"
    /\ pc2' = "drain"
    /\ currentTick2' = T
    /\ callbacksToRun2' = <<>>
    /\ allTasks2' = <<>>
    /\ idx2' = 1
    /\ UNCHANGED <<schedulerVars, natVars>>

DrainStep2(i) ==
    /\ pc2 = "drain"
    /\ i \in DequeueIndexes(scheduledTasks)
    /\ scheduledTasks' = RemoveAt(scheduledTasks, i)
    /\ callbacksToRun2' =
          PushDue(callbacksToRun2, scheduledTasks[i], currentTick2)
    /\ allTasks2' = KeepNotDue(allTasks2, scheduledTasks[i], currentTick2)
    /\ UNCHANGED <<pc, currentTick, callbacksToRun, allTasks, idx, envVars,
                   histVars, pc2, currentTick2, idx2, natVars>>

DrainEnd2 ==
    /\ pc2 = "drain"
    /\ scheduledTasks = <<>>
    /\ pc2' = "reinsert"
    /\ UNCHANGED <<schedulerVars, currentTick2, callbacksToRun2, allTasks2,
                   idx2, natVars>>

ReinsertStep2 ==
    /\ pc2 = "reinsert"
    /\ MoreToReinsert(idx2, allTasks2)
    /\ scheduledTasks' = Enqueue(scheduledTasks, allTasks2[idx2])
    /\ idx2' = idx2 + 1
    /\ UNCHANGED <<pc, currentTick, callbacksToRun, allTasks, idx, envVars,
                   histVars, pc2, currentTick2, callbacksToRun2, allTasks2,
                   natVars>>

Return2 ==
    /\ pc2 = "reinsert"
    /\ ~MoreToReinsert(idx2, allTasks2)
    /\ pc2' = "idle"
    /\ returnedCount' =
          [k \in DOMAIN returnedCount |->
              returnedCount[k] + Count(callbacksToRun2, k)]
    /\ callbacksToRun2' = <<>>
    /\ allTasks2' = <<>>
    /\ idx2' = 1
    /\ UNCHANGED <<progVars, envVars, lastResult, called, monotone,
                   storeAtBegin, schedAtBegin, schedAtDrainEnd, raced,
                   racedReinsert, dequeues, currentTick2, natVars>>

Consumer2 ==
    \/ \E T \in Ticks : Begin2(T)
    \/ \E i \in 1 .. MaxTasks : DrainStep2(i)
    \/ DrainEnd2
    \/ ReinsertStep2
    \/ Return2

\* Two consumer threads and one producer of MaxSharedTasks schedule calls.
MaxSharedTasks == 2

TwoConsumerInit == InitOther /\ InitScheduler(1, MaxSharedTasks, TaskIds)

TwoConsumerNext == Producer \/ Consumer \/ Consumer2

TwoConsumerSpec == TwoConsumerInit /\ [][TwoConsumerNext]_vars

\* The not-due pairs the second thread's call still holds.
NotDueBuffer2 == SubSeq(allTasks2, idx2, Len(allTasks2))

\* C17: with two getCallbacks calls interleaved step by step, no task is in
\* the results of both (nor twice in either), and once neither call is
\* running every scheduled task that was not returned is in the store.
C17_TwoConsumers ==
    /\ \A k \in TaskIds :
          returnedCount[k] + Count(callbacksToRun, k)
              + Count(callbacksToRun2, k) <= 1
    /\ (pc = "idle" /\ pc2 = "idle") =>
          \A k \in Scheduled :
              Count(Callbacks(scheduledTasks), k) + returnedCount[k] = 1

\* The first thread's getCallbacks(T) has returned without a task that was
\* in the store when it began and has tick <= T: the second thread's call
\* had dequeued it as not due and still holds it.
C17_Witness ==
    /\ Finished
    /\ pc2 # "idle"
    /\ \E pair \in Range(storeAtBegin) :
          /\ pair[1] <= currentTick
          /\ returnedCount[pair[2]] = 0
          /\ pair \in Range(NotDueBuffer2)

\* ---------------------------------------------------------------- C19
\* The player iterator natives (natives_players.cpp).  A script holds the
\* addresses CreateConnectedPlayersIterator returned and passes one of them,
\* or nullptr, to the other natives.  natHeap[h] is "unalloc", "live" or
\* "freed".  natCall records the last call: the native, its argument, its
\* result (a bool as 0 or 1, void as 0, an int as SlotSeen gives it), whether
\* it dereferenced its
\* argument, whether the process crashed, and whether any call so far
\* dereferenced a freed iterator.  What ConnectedPlayerIterator answers is
\* not decided by the natives: HasNext() may answer either way and
\* GetCurrentSlot() any slot of 0 .. MaxSlot.
MaxSlot == 1

\* iterator != nullptr
NoGuard(h) == TRUE
NullGuard(h) == h # Null

HeapState(h) == IF h = Null THEN "null" ELSE natHeap[h]

\* The pointers a script can pass: nullptr and every address a Create call
\* returned so far, freed since or not.
Passable == {Null} \cup {h \in Handles : natHeap[h] # "unalloc"}

\* An earlier call went through an iterator that was freed (a read or a
\* write of freed memory, or a second delete): undefined behaviour has
\* happened and the allocator's bookkeeping may be damaged from then on.
Corrupted == natCall.stale

\* int is 32 bits wide.
Int32Max == 2 ^ 30 + (2 ^ 30 - 1)
Int32Min == 0 - Int32Max - 1

\* An int as natCall.ret records it: -1 and the slots of 0 .. MaxSlot as
\* they are, every int below -1 as Int32Min, every int above MaxSlot as
\* Int32Max.
SlotSeen(v) ==
    IF v < 0 - 1 THEN Int32Min ELSE IF v > MaxSlot THEN Int32Max ELSE v

\* What a read of an int from memory that is no iterator can give: any int.
AnyInt == {SlotSeen(v) : v \in {Int32Min, Int32Max} \cup ((0 - 1) .. MaxSlot)}

\* The outcomes of a call through h that a live iterator answers with one of
\* `answers`.  Through a pointer that is null or freed, or through any
\* pointer once the heap may be damaged, the behaviour is undefined: an
\* answer, one of `garbage`, or a crash.
Through(h, answers, garbage) ==
    [ret : answers, crash : {FALSE}]
        \cup (IF HeapState(h) = "live" /\ ~Corrupted THEN {}
              ELSE [ret : answers \cup garbage, crash : BOOLEAN])

Called(fn, h, out, deref) ==
    natCall' = [fn |-> fn, arg |-> h, ret |-> out.ret, deref |-> deref,
                crash |-> out.crash,
                stale |-> natCall.stale \/ (deref /\ HeapState(h) = "freed")]

NativeFrame == UNCHANGED <<schedulerVars, secondVars>>

\* new returns an address that is not in use.  Once the heap may be damaged
\* it can also return an address that is in use (after a second delete of
\* it) or abort inside the allocator.
CreateConnectedPlayersIterator ==
    /\ ~natCall.crash
    /\ \/ \E h \in Handles :
             /\ natHeap[h] # "live" \/ Corrupted
             /\ natHeap' = [natHeap EXCEPT ![h] = "live"]
             /\ natCall' = [fn |-> "CreateConnectedPlayersIterator",
                            arg |-> Null, ret |-> h, deref |-> FALSE,
                            crash |-> FALSE, stale |-> natCall.stale]
       \/ /\ Corrupted
          /\ natHeap' = natHeap
          /\ natCall' = [fn |-> "CreateConnectedPlayersIterator",
                         arg |-> Null, ret |-> Null, deref |-> FALSE,
                         crash |-> TRUE, stale |-> natCall.stale]
    /\ NativeFrame

IteratorHasNext(h) ==
    /\ ~natCall.crash
    /\ h \in Passable
    /\ IF ~NullGuard(h)
          THEN Called("IteratorHasNext", h, [ret |-> 0, crash |-> FALSE], FALSE)
          ELSE \E out \in Through(h, {0, 1}, {}) :
                  Called("IteratorHasNext", h, out, TRUE)
    /\ natHeap' = natHeap
    /\ NativeFrame

IteratorGetCurrentSlot(h) ==
    /\ ~natCall.crash
    /\ h \in Passable
    /\ IF ~NullGuard(h)
          THEN Called("IteratorGetCurrentSlot", h,
                      [ret |-> 0 - 1, crash |-> FALSE], FALSE)
          ELSE \E out \in Through(h, 0 .. MaxSlot, AnyInt) :
                  Called("IteratorGetCurrentSlot", h, out, TRUE)
    /\ natHeap' = natHeap
    /\ NativeFrame

IteratorMoveNext(h) ==
    /\ ~natCall.crash
    /\ h \in Passable
    /\ IF NullGuard(h)
          THEN \E out \in Through(h, {0}, {}) :
                  Called("IteratorMoveNext", h, out, TRUE)
          ELSE Called("IteratorMoveNext", h, [ret |-> 0, crash |-> FALSE], FALSE)
    /\ natHeap' = natHeap
    /\ NativeFrame

\* delete iterator: of a live iterator it frees it; of a freed one it is a
\* double free, undefined; of nullptr it has no effect.
DestroyIterator(h) ==
    /\ ~natCall.crash
    /\ h \in Passable
    /\ IF NullGuard(h) /\ h # Null
          THEN /\ \E out \in Through(h, {0}, {}) :
                     Called("DestroyIterator", h, out, TRUE)
               /\ natHeap' = [natHeap EXCEPT ![h] = "freed"]
          ELSE /\ Called("DestroyIterator", h, [ret |-> 0, crash |-> FALSE],
                         FALSE)
               /\ natHeap' = natHeap
    /\ NativeFrame

NativeInit == InitOther /\ InitScheduler(1, 1, TaskIds)

NativeNext ==
    \/ CreateConnectedPlayersIterator
    \/ \E h \in Handles \cup {Null} : IteratorHasNext(h)
    \/ \E h \in Handles \cup {Null} : IteratorGetCurrentSlot(h)
    \/ \E h \in Handles \cup {Null} : IteratorMoveNext(h)
    \/ \E h \in Handles \cup {Null} : DestroyIterator(h)

NativeSpec == NativeInit /\ [][NativeNext]_vars

IteratorNatives ==
    {"IteratorHasNext", "IteratorGetCurrentSlot", "IteratorMoveNext",
     "DestroyIterator"}

\* C19: a native given nullptr dereferences nothing, changes nothing, and
\* returns false (IteratorHasNext) or -1 (IteratorGetCurrentSlot); given
\* another pointer it goes through it, DestroyIterator leaving the iterator
\* freed; so whatever is dereferenced is not null.  (A pointer that was
\* freed is not null and is gone through as well.)
C19_NullSafe ==
    [][ /\ natCall'.deref => natCall'.arg # Null
        /\ (natCall'.fn \in IteratorNatives /\ natCall'.arg = Null) =>
              /\ ~natCall'.deref
              /\ ~natCall'.crash
              /\ natHeap' = natHeap
              /\ natCall'.fn = "IteratorHasNext" => natCall'.ret = 0
              /\ natCall'.fn = "IteratorGetCurrentSlot" => natCall'.ret = 0 - 1
        /\ (natCall'.fn \in IteratorNatives /\ natCall'.arg # Null) =>
              /\ natCall'.deref
              /\ natCall'.fn = "DestroyIterator" =>
                    natHeap'[natCall'.arg] = "freed"
      ]_vars

\* IteratorGetCurrentSlot(nullptr) has returned -1, one iterator is live,
\* and an earlier call went through an iterator DestroyIterator had freed.
C19_Witness ==
    /\ natCall.fn = "IteratorGetCurrentSlot"
    /\ natCall.arg = Null
    /\ natCall.ret = 0 - 1
    /\ natCall.stale
    /\ \E h \in Handles : natHeap[h] = "live"

====
